---- MODULE Spec2Model ----
(***************************************************************************)
(* Model of the Scale Management dashboard (src/main.py): the data frame   *)
(* loaded from the CSV, the filter dictionary built from the sidebar       *)
(* widgets, filter_data, and the aggregation tables main() derives from    *)
(* the filtered frame.  One Streamlit rerun of main() is one action.       *)
(*                                                                         *)
(* A DataFrame is modelled as a set of rows; every row carries its index   *)
(* label `id`, so two rows with equal column values stay distinct.         *)
(* Hours and amounts are integers.  A missing value is NaN.                *)
(***************************************************************************)
EXTENDS Integers, Sequences, FiniteSets, TLC

\* ------------------------------------------------------------------ bounds
\* Largest number of rows of the CSV file.
MaxRows == 3
\* Largest number of per-record widgets (all but the two minimum-hours sliders)
\* away from their default at one time.
MaxActive == 1

\* ------------------------------------------------------------ value domain
NaN == "NaN"
\* Python's None for the quarter ('All' selected); falsy like 0.
None == 0

MonthNames ==
    <<"January", "February", "March", "April", "May", "June", "July",
      "August", "September", "October", "November", "December">>

\* A timestamp: calendar date plus hour of day.
TS(y, m, d, h) == [y |-> y, m |-> m, d |-> d, h |-> h]
\* A python date (no time of day).
Date(y, m, d) == [y |-> y, m |-> m, d |-> d]

\* Order of dates and of timestamps.
DateOrd(x) == (x.y * 12 + (x.m - 1)) * 31 + (x.d - 1)
TsOrd(t) == DateOrd(t) * 24 + t.h
\* Series.dt.date: the date portion of a timestamp.
DtDate(t) == Date(t.y, t.m, t.d)

RawRow(id, date, att, orig, pa, loc, status, stage, bm, client, bh, nbh, billed, tracked, amt) ==
    [id |-> id, activity_date |-> date, attorney |-> att, originating |-> orig,
     practice_area |-> pa, location |-> loc, matter_status |-> status,
     matter_stage |-> stage, billable_matter |-> bm, matter_description |-> client,
     billable_hours |-> bh, non_billable_hours |-> nbh, billed_hours |-> billed,
     tracked_hours |-> tracked, billable_amount |-> amt]

\* The rows a CSV file is drawn from (Full.csv is not part of the repository).
CsvRows ==
    { RawRow(1, TS(2024, 1, 10, 9),  "A", "O1", "Lit",  "NY", "Open",   "S1", "Yes", "c1", 4, 0, 4, 4, 500),
      RawRow(2, TS(2024, 1, 10, 14), "A", NaN,  "Corp", "LA", "Closed", NaN,  "No",  "c2", 6, 0, 5, 6, 800),
      RawRow(3, TS(2024, 4, 15, 0),  "B", "O2", "Corp", NaN,  "Open",   "S2", "Yes", "c1", 10, 5, 8, 15, 2500),
      RawRow(4, TS(2023, 12, 5, 0),  "B", "O1", NaN,    "NY", NaN,      "S1", NaN,   NaN,  0, 0, 0, 0, 300) }

\* Values offered for the numeric widgets (sliders and number input).
MinHoursChoices == {6}
MinClientHoursChoices == {6, 14}
MinAmountChoices == {800}

\* ------------------------------------------------------------- helpers
RECURSIVE SumOf(_, _)
\* Series.sum() of column `col` over the rows of a frame.
SumOf(frame, col) ==
    IF frame = {} THEN 0
    ELSE LET r == CHOOSE x \in frame : TRUE
         IN  r[col] + SumOf(frame \ {r}, col)

Max(S) == CHOOSE x \in S : \A y \in S : y <= x
Min(S) == CHOOSE x \in S : \A y \in S : x <= y

\* Series.fillna(v)
FillNa(x, v) == IF x = NaN THEN v ELSE x

\* Series.unique() of a column (dropna drops the missing values).
Unique(frame, col) == { r[col] : r \in frame }
UniqueDropNa(frame, col) == Unique(frame, col) \ {NaN}

\* ------------------------------------------------- load_and_process_data
Quarter(t) == ((t.m - 1) \div 3) + 1

\* A float that results from a division: a number (in hundredths), NaN or inf.
Num(v) == [kind |-> "num", v |-> v]
NaNValue == [kind |-> "nan", v |-> 0]
InfValue == [kind |-> "inf", v |-> 0]

\* Float division a / b * scale, kept to two decimals (value in hundredths):
\* pandas gives NaN for 0 / 0 and inf for x / 0, and raises nothing.
Divide(a, b, scale) ==
    IF b = 0
    THEN (IF a = 0 THEN NaNValue ELSE InfValue)
    ELSE Num((2 * a * scale * 100 + b) \div (2 * b))

\* The utilization rate without its .fillna(0).
UtilizationOfRow_NoFillNa(bh, total) == Divide(bh, total, 100)

\* (Billable hours / Total hours * 100).fillna(0)
UtilizationOfRow(bh, total) ==
    IF Divide(bh, total, 100) = NaNValue THEN Num(0) ELSE Divide(bh, total, 100)

Enrich(raw) ==
    [id |-> raw.id,
     activity_date |-> raw.activity_date,
     year |-> raw.activity_date.y,
     month |-> raw.activity_date.m,
     month_name |-> MonthNames[raw.activity_date.m],
     quarter |-> Quarter(raw.activity_date),
     attorney |-> raw.attorney,
     originating |-> raw.originating,
     matter_description |-> FillNa(raw.matter_description, ""),
     practice_area |-> FillNa(raw.practice_area, "Unspecified"),
     location |-> FillNa(raw.location, "Unspecified"),
     matter_status |-> raw.matter_status,
     matter_stage |-> raw.matter_stage,
     billable_matter |-> raw.billable_matter,
     billable_hours |-> raw.billable_hours,
     non_billable_hours |-> raw.non_billable_hours,
     billed_hours |-> raw.billed_hours,
     tracked_hours |-> raw.tracked_hours,
     billable_amount |-> raw.billable_amount,
     total_hours |-> raw.billable_hours + raw.non_billable_hours,
     utilization_rate |->
         UtilizationOfRow(raw.billable_hours,
                          raw.billable_hours + raw.non_billable_hours)]

load_and_process_data(file) == { Enrich(raw) : raw \in file }

\* ------------------------------------------------------------ filter_data
\* Each step of filter_data as a function of the frame it receives.
FilterYear(frame, f) ==
    IF f.year # 0 THEN { r \in frame : r.year = f.year } ELSE frame

FilterQuarter(frame, f) ==
    IF f.quarter # None THEN { r \in frame : r.quarter = f.quarter } ELSE frame

FilterMonths(frame, f) ==
    IF f.months # {} THEN { r \in frame : r.month_name \in f.months } ELSE frame

\* The comparison made on the timestamp itself (no .dt.date), the range's dates
\* taken at midnight.
FilterDateRange_OnTimestamp(frame, f) ==
    IF Len(f.date_range) = 2
    THEN { r \in frame :
             /\ TsOrd(r.activity_date) >= DateOrd(f.date_range[1]) * 24
             /\ TsOrd(r.activity_date) <= DateOrd(f.date_range[2]) * 24 }
    ELSE frame

FilterDateRange(frame, f) ==
    IF Len(f.date_range) = 2
    THEN { r \in frame :
             /\ DateOrd(DtDate(r.activity_date)) >= DateOrd(f.date_range[1])
             /\ DateOrd(DtDate(r.activity_date)) <= DateOrd(f.date_range[2]) }
    ELSE frame

FilterAttorneys(frame, f) ==
    IF f.attorneys # {} THEN { r \in frame : r.attorney \in f.attorneys } ELSE frame

FilterOriginating(frame, f) ==
    IF f.originating_attorneys # {}
    THEN { r \in frame : r.originating \in f.originating_attorneys }
    ELSE frame

\* groupby(col)['Billable hours'].sum(): one entry per key present in the frame.
GroupHours(frame, col) ==
    [k \in UniqueDropNa(frame, col) |->
        SumOf({ r \in frame : r[col] = k }, "billable_hours")]

AttorneyHours(frame) == GroupHours(frame, "attorney")

\* The comparison of line 204 made strict.
ValidAttorneys_Strict(frame, f) ==
    LET attorney_hours_ == AttorneyHours(frame)
    IN  { a \in DOMAIN attorney_hours_ : attorney_hours_[a] > f.min_hours }

ValidAttorneys(frame, f) ==
    LET attorney_hours_ == AttorneyHours(frame)
    IN  { a \in DOMAIN attorney_hours_ : attorney_hours_[a] >= f.min_hours }

FilterMinHours(frame, f) ==
    IF f.min_hours > 0
    THEN LET valid == ValidAttorneys(frame, f)
         IN  { r \in frame : r.attorney \in valid }
    ELSE frame

FilterPracticeAreas(frame, f) ==
    IF f.practice_areas # {}
    THEN { r \in frame : r.practice_area \in f.practice_areas }
    ELSE frame

FilterLocations(frame, f) ==
    IF f.locations # {} THEN { r \in frame : r.location \in f.locations } ELSE frame

FilterMatterStatus(frame, f) ==
    IF f.matter_status # {}
    THEN { r \in frame : r.matter_status \in f.matter_status }
    ELSE frame

FilterMatterStage(frame, f) ==
    IF f.matter_stage # {}
    THEN { r \in frame : r.matter_stage \in f.matter_stage }
    ELSE frame

FilterBillableMatter(frame, f) ==
    IF f.billable_matter # {}
    THEN { r \in frame : r.billable_matter \in f.billable_matter }
    ELSE frame

\* The minimum amount compared against the client's total, not the row's amount.
FilterMinAmount_ByClientTotal(frame, f) ==
    IF f.min_amount > 0
    THEN { r \in frame :
             SumOf({ x \in frame : x.matter_description = r.matter_description },
                   "billable_amount") >= f.min_amount }
    ELSE frame

FilterMinAmount(frame, f) ==
    IF f.min_amount > 0
    THEN { r \in frame : r.billable_amount >= f.min_amount }
    ELSE frame

FilterRateRange(frame, f) ==
    IF Len(f.rate_range) = 2
    THEN { r \in frame :
             /\ r.billable_amount >= f.rate_range[1]
             /\ r.billable_amount <= f.rate_range[2] }
    ELSE frame

\* The client step without its `if filters['clients']` guard.
FilterClients_NoEmptyGuard(frame, f) ==
    { r \in frame : r.matter_description \in f.clients }

FilterClients(frame, f) ==
    IF f.clients # {}
    THEN { r \in frame : r.matter_description \in f.clients }
    ELSE frame

\* The per-client sums taken on the 'Tracked hours' column.
ClientHours_Tracked(frame) ==
    [k \in UniqueDropNa(frame, "matter_description") |->
        SumOf({ r \in frame : r.matter_description = k }, "tracked_hours")]

ClientHours(frame) == GroupHours(frame, "matter_description")

\* The comparison of line 235 turned round.
ValidClients_Reversed(frame, f) ==
    LET client_hours_ == ClientHours(frame)
    IN  { c \in DOMAIN client_hours_ : client_hours_[c] <= f.min_client_hours }

ValidClients(frame, f) ==
    LET client_hours_ == ClientHours(frame)
    IN  { c \in DOMAIN client_hours_ : client_hours_[c] >= f.min_client_hours }

FilterMinClientHours(frame, f) ==
    IF f.min_client_hours > 0
    THEN LET valid == ValidClients(frame, f)
         IN  { r \in frame : r.matter_description \in valid }
    ELSE frame

\* The frame filter_data holds just before its min_hours step (lines 182-201).
BeforeMinHours(frame, f) ==
    FilterOriginating(FilterAttorneys(FilterDateRange(FilterMonths(
        FilterQuarter(FilterYear(frame, f), f), f), f), f), f)

\* The steps between the min_hours step and the min_client_hours step
\* (lines 207-232).
AfterMinHours(frame, f) ==
    FilterClients(FilterRateRange(FilterMinAmount(FilterBillableMatter(
        FilterMatterStage(FilterMatterStatus(FilterLocations(
            FilterPracticeAreas(frame, f), f), f), f), f), f), f), f)

NoHours == [k \in {} |-> 0]

\* filter_data with its min_client_hours step placed right after the min_hours
\* step, ahead of the practice, matter, financial and client filters.
FilterRun_ClientThresholdEarly(frame, f) ==
    LET at_min_hours == BeforeMinHours(frame, f)
        at_min_client_hours == FilterMinHours(at_min_hours, f)
    IN  [filtered_df |->
            AfterMinHours(FilterMinClientHours(at_min_client_hours, f), f),
         attorney_hours |->
            IF f.min_hours > 0 THEN AttorneyHours(at_min_hours) ELSE NoHours,
         valid_attorneys |->
            IF f.min_hours > 0 THEN ValidAttorneys(at_min_hours, f) ELSE {},
         client_hours |->
            IF f.min_client_hours > 0 THEN ClientHours(at_min_client_hours)
            ELSE NoHours,
         valid_clients |->
            IF f.min_client_hours > 0 THEN ValidClients(at_min_client_hours, f)
            ELSE {}]

\* filter_data with its two threshold steps exchanged: the min_client_hours step
\* where the min_hours step is, and the min_hours step last.
FilterRun_ThresholdsExchanged(frame, f) ==
    LET at_min_client_hours == BeforeMinHours(frame, f)
        at_min_hours ==
            AfterMinHours(FilterMinClientHours(at_min_client_hours, f), f)
    IN  [filtered_df |-> FilterMinHours(at_min_hours, f),
         attorney_hours |->
            IF f.min_hours > 0 THEN AttorneyHours(at_min_hours) ELSE NoHours,
         valid_attorneys |->
            IF f.min_hours > 0 THEN ValidAttorneys(at_min_hours, f) ELSE {},
         client_hours |->
            IF f.min_client_hours > 0 THEN ClientHours(at_min_client_hours)
            ELSE NoHours,
         valid_clients |->
            IF f.min_client_hours > 0 THEN ValidClients(at_min_client_hours, f)
            ELSE {}]

\* One run of filter_data on a frame: the frame it returns and the locals of its
\* two threshold steps (empty when the step is skipped).
FilterRun(frame, f) ==
    LET at_min_hours == BeforeMinHours(frame, f)
        at_min_client_hours == AfterMinHours(FilterMinHours(at_min_hours, f), f)
    IN  [filtered_df |-> FilterMinClientHours(at_min_client_hours, f),
         attorney_hours |->
            IF f.min_hours > 0 THEN AttorneyHours(at_min_hours) ELSE NoHours,
         valid_attorneys |->
            IF f.min_hours > 0 THEN ValidAttorneys(at_min_hours, f) ELSE {},
         client_hours |->
            IF f.min_client_hours > 0 THEN ClientHours(at_min_client_hours)
            ELSE NoHours,
         valid_clients |->
            IF f.min_client_hours > 0 THEN ValidClients(at_min_client_hours, f)
            ELSE {}]

filter_data(frame, f) == FilterRun(frame, f).filtered_df

\* --------------------------------------------------- create_sidebar_filters
ThresholdKeys == {"min_hours", "min_client_hours"}
PerRecordKeys ==
    {"year", "quarter", "months", "date_range", "attorneys", "originating_attorneys",
     "practice_areas", "locations", "matter_status", "matter_stage",
     "billable_matter", "min_amount", "rate_range", "clients"}
FilterKeys == PerRecordKeys \cup ThresholdKeys

Dates(frame) == { DtDate(r.activity_date) : r \in frame }
MinDate(frame) == CHOOSE a \in Dates(frame) : \A b \in Dates(frame) : DateOrd(a) <= DateOrd(b)
MaxDate(frame) == CHOOSE a \in Dates(frame) : \A b \in Dates(frame) : DateOrd(b) <= DateOrd(a)

\* The dictionary returned when no widget has been touched.
DefaultFilters(frame) ==
    [year |-> Max(Unique(frame, "year")),
     quarter |-> None,
     months |-> {},
     date_range |-> <<MinDate(frame), MaxDate(frame)>>,
     attorneys |-> {},
     originating_attorneys |-> {},
     min_hours |-> 0,
     practice_areas |-> {},
     locations |-> {},
     matter_status |-> {},
     matter_stage |-> {},
     billable_matter |-> {},
     min_amount |-> 0,
     rate_range |-> <<Min(Unique(frame, "billable_amount")),
                      Max(Unique(frame, "billable_amount"))>>,
     clients |-> {},
     min_client_hours |-> 0]

\* The selections tried in a multiselect offering S: nothing, one value, or all.
Selections(S) == {{}, S} \cup { {x} : x \in S }

\* The values tried in each widget for a loaded frame; every one is a value the
\* widget offers (its options come from the frame's columns).
YearOptions(frame) == Unique(frame, "year")
QuarterOptions(frame) == {None} \cup Unique(frame, "quarter")
MonthOptions(frame) == Selections(Unique(frame, "month_name"))
\* st.date_input returns a 1-tuple while only the start date is picked.
DateRangeOptions(frame) ==
    { <<MinDate(frame)>>, <<MinDate(frame), MaxDate(frame)>> } \cup
    { <<a, a>> : a \in Dates(frame) }
AttorneyOptions(frame) == Selections(Unique(frame, "attorney"))
OriginatingOptions(frame) == Selections(UniqueDropNa(frame, "originating"))
MinHoursOptions(frame) ==
    { h \in {0} \cup MinHoursChoices : h <= Max(Unique(frame, "billable_hours")) }
PracticeAreaOptions(frame) == Selections(Unique(frame, "practice_area"))
LocationOptions(frame) == Selections(Unique(frame, "location"))
MatterStatusOptions(frame) == Selections(UniqueDropNa(frame, "matter_status"))
MatterStageOptions(frame) == Selections(UniqueDropNa(frame, "matter_stage"))
BillableMatterOptions(frame) == Selections(UniqueDropNa(frame, "billable_matter"))
MinAmountOptions(frame) ==
    { a \in {0} \cup MinAmountChoices : a <= Max(Unique(frame, "billable_amount")) }
RateRangeOptions(frame) ==
    { <<Min(Unique(frame, "billable_amount")), Max(Unique(frame, "billable_amount"))>> }
    \cup { <<a, a>> : a \in Unique(frame, "billable_amount") }
ClientOptions(frame) == Selections(Unique(frame, "matter_description"))
MinClientHoursOptions(frame) ==
    { h \in {0} \cup MinClientHoursChoices :
        h <= Max({ ClientHours(frame)[c] : c \in DOMAIN ClientHours(frame) }) }

WidgetOptions(frame) ==
    [year |-> YearOptions(frame),
     quarter |-> QuarterOptions(frame),
     months |-> MonthOptions(frame),
     date_range |-> DateRangeOptions(frame),
     attorneys |-> AttorneyOptions(frame),
     originating_attorneys |-> OriginatingOptions(frame),
     min_hours |-> MinHoursOptions(frame),
     practice_areas |-> PracticeAreaOptions(frame),
     locations |-> LocationOptions(frame),
     matter_status |-> MatterStatusOptions(frame),
     matter_stage |-> MatterStageOptions(frame),
     billable_matter |-> BillableMatterOptions(frame),
     min_amount |-> MinAmountOptions(frame),
     rate_range |-> RateRangeOptions(frame),
     clients |-> ClientOptions(frame),
     min_client_hours |-> MinClientHoursOptions(frame)]

\* ------------------------------------------------------ aggregation tables
Group(frame, col, k) == { r \in frame : r[col] = k }

\* display_key_metrics: the two guarded ratios of the top row.
KeyMetrics(frame) ==
    LET billable == SumOf(frame, "billable_hours")
        tracked == SumOf(frame, "tracked_hours")
        amount == SumOf(frame, "billable_amount")
    IN  [utilization_rate |->
            IF tracked > 0 THEN Divide(billable, tracked, 100) ELSE Num(0),
         avg_rate |->
            IF billable > 0 THEN Divide(amount, billable, 1) ELSE Num(0)]

\* The ratio columns of the client and attorney tables.
UtilizationRate(billable, tracked) == Divide(billable, tracked, 100)
AverageRate(amount, billable) == Divide(amount, billable, 1)
EfficiencyRate(billed, billable) == Divide(billed, billable, 100)

ClientMetricsRow(g) ==
    LET billable == SumOf(g, "billable_hours")
        billed == SumOf(g, "billed_hours")
        amount == SumOf(g, "billable_amount")
        tracked == SumOf(g, "tracked_hours")
    IN  [billable_hours |-> billable,
         billed_hours |-> billed,
         non_billable_hours |-> SumOf(g, "non_billable_hours"),
         billable_amount |-> amount,
         tracked_hours |-> tracked,
         utilization_rate |-> UtilizationRate(billable, tracked),
         average_rate |-> AverageRate(amount, billable),
         efficiency_rate |-> EfficiencyRate(billed, billable)]

create_client_metrics_table(frame) ==
    [c \in Unique(frame, "matter_description") |->
        ClientMetricsRow(Group(frame, "matter_description", c))]

AttorneyMetricsRow(g) ==
    LET billable == SumOf(g, "billable_hours")
        amount == SumOf(g, "billable_amount")
        tracked == SumOf(g, "tracked_hours")
    IN  [billable_hours |-> billable,
         non_billable_hours |-> SumOf(g, "non_billable_hours"),
         billed_hours |-> SumOf(g, "billed_hours"),
         billable_amount |-> amount,
         tracked_hours |-> tracked,
         utilization_rate |-> UtilizationRate(billable, tracked),
         average_rate |-> AverageRate(amount, billable)]

AttorneyMetrics(frame) ==
    [a \in Unique(frame, "attorney") |->
        AttorneyMetricsRow(Group(frame, "attorney", a))]

PracticeMetricsRow(g) ==
    [billable_hours |-> SumOf(g, "billable_hours"),
     non_billable_hours |-> SumOf(g, "non_billable_hours"),
     billed_hours |-> SumOf(g, "billed_hours"),
     billable_amount |-> SumOf(g, "billable_amount")]

PracticeMetrics(frame) ==
    [p \in Unique(frame, "practice_area") |->
        PracticeMetricsRow(Group(frame, "practice_area", p))]

\* The pair table with each sum taken over the first key's rows only.
GroupPairs_FirstKeyOnly(frame, c1, c2) ==
    [k \in { <<r[c1], r[c2]>> : r \in frame } |->
        SumOf({ r \in frame : r[c1] = k[1] }, "billable_hours")]

\* groupby([c1, c2]).agg({'Billable hours': 'sum'}): one row per key pair present.
GroupPairs(frame, c1, c2) ==
    [k \in { <<r[c1], r[c2]>> : r \in frame } |->
        SumOf({ r \in frame : r[c1] = k[1] /\ r[c2] = k[2] }, "billable_hours")]

ClientPractice(frame) == GroupPairs(frame, "matter_description", "practice_area")
PracticeAttorney(frame) == GroupPairs(frame, "practice_area", "attorney")

\* ------------------------------------------------------------ trend series
TrendRow(period, g) ==
    [period |-> period,
     billable_hours |-> SumOf(g, "billable_hours"),
     billed_hours |-> SumOf(g, "billed_hours"),
     non_billable_hours |-> SumOf(g, "non_billable_hours")]

RECURSIVE SortedTimestamps(_)
\* The group keys of groupby('Activity date'), in ascending order.
SortedTimestamps(S) ==
    IF S = {} THEN << >>
    ELSE LET m == CHOOSE x \in S : \A y \in S : TsOrd(x) <= TsOrd(y)
         IN  <<m>> \o SortedTimestamps(S \ {m})

\* create_trending_chart: groupby('Activity date') keys on the whole timestamp.
DailyData(frame) ==
    LET keys == SortedTimestamps(Unique(frame, "activity_date"))
    IN  [i \in 1..Len(keys) |->
            TrendRow(keys[i], { r \in frame : r.activity_date = keys[i] })]

MonthIndex(x) == x.y * 12 + (x.m - 1)
MonthOfIndex(i) == [y |-> i \div 12, m |-> (i % 12) + 1]

\* groupby(pd.Grouper(key='Activity date', freq='M')): one bin per month from
\* the first to the last month of the frame, whether or not a row falls in it.
MonthlyData(frame) ==
    IF frame = {} THEN << >>
    ELSE LET lo == Min({ MonthIndex(r.activity_date) : r \in frame })
             hi == Max({ MonthIndex(r.activity_date) : r \in frame })
         IN  [i \in 1..(hi - lo + 1) |->
                TrendRow(MonthOfIndex(lo + i - 1),
                         { r \in frame : MonthIndex(r.activity_date) = lo + i - 1 })]

\* ------------------------------------------------------------------- state
VARIABLES
    df,                \* load_and_process_data()
    filters,           \* create_sidebar_filters(df)
    filtered_df,       \* filter_data(df, filters)
    attorney_hours,    \* filter_data's local of that name (empty when not computed)
    valid_attorneys,   \* filter_data's local of that name
    client_hours,      \* filter_data's local of that name (empty when not computed)
    valid_clients      \* filter_data's local of that name

vars ==
    <<df, filters, filtered_df, attorney_hours, valid_attorneys, client_hours,
      valid_clients>>

\* The tables and series main() derives from filtered_df on every run.
key_metrics == KeyMetrics(filtered_df)
client_metrics == create_client_metrics_table(filtered_df)
attorney_metrics == AttorneyMetrics(filtered_df)
practice_metrics == PracticeMetrics(filtered_df)
client_practice == ClientPractice(filtered_df)
practice_data == PracticeAttorney(filtered_df)
daily_data == DailyData(filtered_df)
monthly_data == MonthlyData(filtered_df)

\* The number of per-record widgets away from their default.
NumActive(d, f) ==
    LET default == DefaultFilters(d)
    IN  Cardinality({ k \in PerRecordKeys : f[k] # default[k] })

Init ==
    /\ \E csv \in { file \in SUBSET CsvRows : file # {} /\ Cardinality(file) <= MaxRows } :
          df = load_and_process_data(csv)
    /\ filters = DefaultFilters(df)
    /\ filtered_df = FilterRun(df, filters).filtered_df
    /\ attorney_hours = FilterRun(df, filters).attorney_hours
    /\ valid_attorneys = FilterRun(df, filters).valid_attorneys
    /\ client_hours = FilterRun(df, filters).client_hours
    /\ valid_clients = FilterRun(df, filters).valid_clients

\* main() rerun after widget `key` was set to `value`.
Rerun(key, value) ==
    LET f == [filters EXCEPT ![key] = value]
        run == FilterRun(df, f)
    IN  /\ value # filters[key]
        /\ key \in PerRecordKeys => NumActive(df, f) <= MaxActive
        /\ filters' = f
        /\ filtered_df' = run.filtered_df
        /\ attorney_hours' = run.attorney_hours
        /\ valid_attorneys' = run.valid_attorneys
        /\ client_hours' = run.client_hours
        /\ valid_clients' = run.valid_clients
        /\ UNCHANGED df

SelectYear == \E v \in YearOptions(df) : Rerun("year", v)
SelectQuarter == \E v \in QuarterOptions(df) : Rerun("quarter", v)
SelectMonths == \E v \in MonthOptions(df) : Rerun("months", v)
PickDateRange == \E v \in DateRangeOptions(df) : Rerun("date_range", v)
SelectAttorneys == \E v \in AttorneyOptions(df) : Rerun("attorneys", v)
SelectOriginating ==
    \E v \in OriginatingOptions(df) : Rerun("originating_attorneys", v)
SlideMinHours == \E v \in MinHoursOptions(df) : Rerun("min_hours", v)
SelectPracticeAreas ==
    \E v \in PracticeAreaOptions(df) : Rerun("practice_areas", v)
SelectLocations == \E v \in LocationOptions(df) : Rerun("locations", v)
SelectMatterStatus == \E v \in MatterStatusOptions(df) : Rerun("matter_status", v)
SelectMatterStage == \E v \in MatterStageOptions(df) : Rerun("matter_stage", v)
SelectBillableMatter ==
    \E v \in BillableMatterOptions(df) : Rerun("billable_matter", v)
InputMinAmount == \E v \in MinAmountOptions(df) : Rerun("min_amount", v)
SlideRateRange == \E v \in RateRangeOptions(df) : Rerun("rate_range", v)
SelectClients == \E v \in ClientOptions(df) : Rerun("clients", v)
SlideMinClientHours ==
    \E v \in MinClientHoursOptions(df) : Rerun("min_client_hours", v)

Next ==
    \/ SelectYear
    \/ SelectQuarter
    \/ SelectMonths
    \/ PickDateRange
    \/ SelectAttorneys
    \/ SelectOriginating
    \/ SlideMinHours
    \/ SelectPracticeAreas
    \/ SelectLocations
    \/ SelectMatterStatus
    \/ SelectMatterStage
    \/ SelectBillableMatter
    \/ InputMinAmount
    \/ SlideRateRange
    \/ SelectClients
    \/ SlideMinClientHours

Spec == Init /\ [][Next]_vars


\* ------------------------------------------------ vocabulary of the claims
MultiSelectKeys ==
    {"months", "attorneys", "originating_attorneys", "practice_areas", "locations",
     "matter_status", "matter_stage", "billable_matter", "clients"}

\* Calendar order of two dates, stated on year, month and day.
OnOrBefore(a, b) ==
    \/ a.y < b.y
    \/ a.y = b.y /\ a.m < b.m
    \/ a.y = b.y /\ a.m = b.m /\ a.d <= b.d

\* Row r meets the constraints of the time and attorney facets that f activates.
SatisfiesEarly(r, f) ==
    /\ f.year # 0 => r.year = f.year
    /\ f.quarter # None => r.quarter = f.quarter
    /\ f.months # {} => r.month_name \in f.months
    /\ Len(f.date_range) = 2 =>
          /\ OnOrBefore(f.date_range[1], r.activity_date)
          /\ OnOrBefore(r.activity_date, f.date_range[2])
    /\ f.attorneys # {} => r.attorney \in f.attorneys
    /\ f.originating_attorneys # {} => r.originating \in f.originating_attorneys

\* Row r meets the constraints of the practice, matter, financial and client
\* facets that f activates.
SatisfiesLate(r, f) ==
    /\ f.practice_areas # {} => r.practice_area \in f.practice_areas
    /\ f.locations # {} => r.location \in f.locations
    /\ f.matter_status # {} => r.matter_status \in f.matter_status
    /\ f.matter_stage # {} => r.matter_stage \in f.matter_stage
    /\ f.billable_matter # {} => r.billable_matter \in f.billable_matter
    /\ f.min_amount > 0 => r.billable_amount >= f.min_amount
    /\ Len(f.rate_range) = 2 =>
          /\ f.rate_range[1] <= r.billable_amount
          /\ r.billable_amount <= f.rate_range[2]
    /\ f.clients # {} => r.matter_description \in f.clients

\* Row r meets every active per-record constraint of f.
Satisfies(r, f) == SatisfiesEarly(r, f) /\ SatisfiesLate(r, f)

\* A specification with no constraint at all.
NoConstraints ==
    [year |-> 0, quarter |-> None, months |-> {}, date_range |-> << >>,
     attorneys |-> {}, originating_attorneys |-> {}, min_hours |-> 0,
     practice_areas |-> {}, locations |-> {}, matter_status |-> {},
     matter_stage |-> {}, billable_matter |-> {}, min_amount |-> 0,
     rate_range |-> << >>, clients |-> {}, min_client_hours |-> 0]

\* The specification whose only constraint is k = v.
Only(k, v) == [NoConstraints EXCEPT ![k] = v]

\* Value v activates constraint k.
Activates(k, v) ==
    CASE k \in MultiSelectKeys -> v # {}
      [] k \in {"date_range", "rate_range"} -> Len(v) = 2
      [] OTHER -> v # 0

\* Value new of constraint k admits no record that value old rejects.
Tighter(k, old, new) ==
    CASE k \in MultiSelectKeys -> new # {} /\ (old = {} \/ new \subseteq old)
      [] k = "date_range" ->
            /\ Len(new) = 2
            /\ Len(old) = 2 => /\ OnOrBefore(old[1], new[1])
                               /\ OnOrBefore(new[2], old[2])
      [] k = "rate_range" ->
            /\ Len(new) = 2
            /\ Len(old) = 2 => (old[1] <= new[1] /\ new[2] <= old[2])
      [] k \in {"year", "quarter"} -> old = 0 /\ new # 0
      [] OTHER -> new >= old

RECURSIVE SumOver(_, _)
\* The sum of table t over the keys in K.
SumOver(t, K) ==
    IF K = {} THEN 0
    ELSE LET k == CHOOSE x \in K : TRUE
         IN  t[k] + SumOver(t, K \ {k})

JustLoaded == filters = DefaultFilters(df)

\* ---------------------------------------------------------------------- C1
\* C1: with min_hours > 0, the per-attorney sums the threshold is compared
\* against are taken over exactly the rows that meet every active per-record
\* constraint, so every attorney left in the result has at least min_hours
\* billable hours among those rows.
C1_ThresholdAfterAllPerRecord ==
    filters.min_hours > 0 =>
        /\ attorney_hours = GroupHours({ r \in df : Satisfies(r, filters) }, "attorney")
        /\ \A r \in filtered_df :
              SumOf({ x \in df : Satisfies(x, filters) /\ x.attorney = r.attorney },
                    "billable_hours") >= filters.min_hours

\* ---------------------------------------------------------------------- C2
\* C2 as stated: filtering the filtered frame again with the same
\* specification changes nothing, for every specification.
C2_Idempotent == filter_data(filtered_df, filters) = filtered_df

\* No step after the attorney threshold removed a row.
NothingRemovedAfterMinHours ==
    filtered_df =
        { r \in df : SatisfiesEarly(r, filters) /\ r.attorney \in valid_attorneys }

\* C2 amended: filtering again with the same specification changes nothing
\* when min_hours is 0, or when no step after the attorney threshold removed
\* a row.
C2_IdempotentWithoutLaterRemoval ==
    (filters.min_hours = 0 \/ NothingRemovedAfterMinHours)
        => filter_data(filtered_df, filters) = filtered_df

\* A client threshold and a per-record constraint are active, rows were removed
\* and rows remain.
C2_Witness ==
    /\ filters.min_hours = 0
    /\ filters.min_client_hours > 0
    /\ valid_clients # DOMAIN client_hours
    /\ \E k \in MultiSelectKeys : filters[k] # {}
    /\ filtered_df # {}

\* ---------------------------------------------------------------------- C3
RatioIsGuarded(ratio, denominator) ==
    /\ ratio.kind = "num"
    /\ denominator = 0 => ratio = Num(0)

\* C3: in the client table, the attorney table and the key metrics every
\* ratio is a number, and is 0 when its denominator (tracked hours for the
\* utilization rate, billable hours for the average and efficiency rates) is 0.
C3_RatiosZeroGuarded ==
    /\ \A c \in DOMAIN client_metrics :
          /\ RatioIsGuarded(client_metrics[c].utilization_rate,
                            client_metrics[c].tracked_hours)
          /\ RatioIsGuarded(client_metrics[c].average_rate,
                            client_metrics[c].billable_hours)
          /\ RatioIsGuarded(client_metrics[c].efficiency_rate,
                            client_metrics[c].billable_hours)
    /\ \A a \in DOMAIN attorney_metrics :
          /\ RatioIsGuarded(attorney_metrics[a].utilization_rate,
                            attorney_metrics[a].tracked_hours)
          /\ RatioIsGuarded(attorney_metrics[a].average_rate,
                            attorney_metrics[a].billable_hours)
    /\ RatioIsGuarded(key_metrics.utilization_rate, SumOf(filtered_df, "tracked_hours"))
    /\ RatioIsGuarded(key_metrics.avg_rate, SumOf(filtered_df, "billable_hours"))

\* ---------------------------------------------------------------------- C4
\* C4: the result is a subset of the input, and setting any one widget to a
\* value that activates or tightens its constraint (a threshold included)
\* gives a subset of the current result; so does activating the year, the
\* date range or the rate range of a specification that lacks it.
C4_MonotonicNarrowing ==
    LET options == WidgetOptions(df)
    IN  /\ filtered_df \subseteq df
        /\ \A k \in FilterKeys : \A v \in options[k] :
              Tighter(k, filters[k], v) =>
                  filter_data(df, [filters EXCEPT ![k] = v]) \subseteq filtered_df
        /\ \A k \in {"year", "date_range", "rate_range"} :
              filtered_df \subseteq
                  filter_data(df, [filters EXCEPT ![k] = NoConstraints[k]])

\* Raising a threshold of the current specification removes rows, and rows remain.
C4_Witness ==
    \E k \in ThresholdKeys : \E v \in WidgetOptions(df)[k] :
        /\ filters[k] > 0
        /\ v > filters[k]
        /\ filter_data(df, [filters EXCEPT ![k] = v]) # filtered_df
        /\ filter_data(df, [filters EXCEPT ![k] = v]) # {}

\* ---------------------------------------------------------------------- C5
\* C5: for any two per-record constraints A and B the widgets offer for the
\* loaded frame, filtering by A and then by B gives the rows that filtering by
\* B and then by A gives, and, when A and B are on different facets, the rows
\* that one specification with both active gives.
C5_PerRecordCommute ==
    JustLoaded =>
        LET options == WidgetOptions(df)
        IN  \A ka \in PerRecordKeys, kb \in PerRecordKeys :
              \A va \in { v \in options[ka] : Activates(ka, v) } :
                \A vb \in { v \in options[kb] : Activates(kb, v) } :
                  /\ filter_data(filter_data(df, Only(ka, va)), Only(kb, vb))
                        = filter_data(filter_data(df, Only(kb, vb)), Only(ka, va))
                  /\ ka # kb =>
                        filter_data(filter_data(df, Only(ka, va)), Only(kb, vb))
                            = filter_data(df, [Only(ka, va) EXCEPT ![kb] = vb])

\* Two constraints on different facets each remove rows, and not the same ones.
C5_Witness ==
    /\ JustLoaded
    /\ \E r1 \in df, r2 \in df :
          /\ filter_data(df, Only("attorneys", {r1.attorney})) # df
          /\ filter_data(df, Only("practice_areas", {r2.practice_area})) # df
          /\ filter_data(df, Only("attorneys", {r1.attorney}))
                # filter_data(df, Only("practice_areas", {r2.practice_area}))
          /\ filter_data(filter_data(df, Only("attorneys", {r1.attorney})),
                         Only("practice_areas", {r2.practice_area})) # {}

\* ---------------------------------------------------------------------- C6
\* C6: with both thresholds at 0 the result is exactly the rows of the frame
\* that meet every active per-record constraint: membership for the
\* multiselects, equality for year and quarter, amount >= minimum, and the
\* date range (on the calendar day) and rate range inclusive on both ends.
\* The same holds when the year or the rate range is not given.
C6_ResultIsConjunction ==
    (filters.min_hours = 0 /\ filters.min_client_hours = 0) =>
        \A f \in { filters, [filters EXCEPT !.year = 0],
                   [filters EXCEPT !.rate_range = << >>] } :
            filter_data(df, f) = { r \in df : Satisfies(r, f) }

\* A date range ending on a day is active and keeps a row logged later that day
\* while another row is removed.
C6_Witness ==
    /\ filters.min_hours = 0
    /\ filters.min_client_hours = 0
    /\ Len(filters.date_range) = 2
    /\ \E r \in filtered_df :
          /\ r.activity_date.h > 0
          /\ DtDate(r.activity_date) = filters.date_range[2]
    /\ filtered_df # df

\* ---------------------------------------------------------------------- C7
\* C7: a step whose constraint is absent (empty multiselect, quarter None,
\* threshold 0) returns the frame it is given, whatever that frame is, and a
\* specification with no constraint returns its input.
C7_AbsentIsNoOp ==
    \A X \in SUBSET df :
        /\ filters.quarter = None => FilterQuarter(X, filters) = X
        /\ filters.months = {} => FilterMonths(X, filters) = X
        /\ filters.attorneys = {} => FilterAttorneys(X, filters) = X
        /\ filters.originating_attorneys = {} => FilterOriginating(X, filters) = X
        /\ filters.min_hours = 0 => FilterMinHours(X, filters) = X
        /\ filters.practice_areas = {} => FilterPracticeAreas(X, filters) = X
        /\ filters.locations = {} => FilterLocations(X, filters) = X
        /\ filters.matter_status = {} => FilterMatterStatus(X, filters) = X
        /\ filters.matter_stage = {} => FilterMatterStage(X, filters) = X
        /\ filters.billable_matter = {} => FilterBillableMatter(X, filters) = X
        /\ filters.min_amount = 0 => FilterMinAmount(X, filters) = X
        /\ filters.clients = {} => FilterClients(X, filters) = X
        /\ filters.min_client_hours = 0 => FilterMinClientHours(X, filters) = X
        /\ filter_data(X, NoConstraints) = X

\* Every multiselect is empty, the quarter is None, the thresholds are 0, and
\* the frame holds rows with a missing value in a multiselect column.
C7_Witness ==
    /\ \A k \in MultiSelectKeys : filters[k] = {}
    /\ filters.quarter = None
    /\ filters.min_hours = 0 /\ filters.min_amount = 0 /\ filters.min_client_hours = 0
    /\ \E r \in filtered_df : r.originating = NaN
    /\ Cardinality(filtered_df) > 1

\* ---------------------------------------------------------------------- C8
\* C8: for every practice area P of the filtered frame, the billable hours of
\* the (client, P) groups add up to the practice-area sum of P, and so do those
\* of the (P, attorney) groups; every row lies in exactly one group of each
\* table.
C8_HierarchicalConsistency ==
    /\ \A p \in DOMAIN practice_metrics :
          /\ SumOver(client_practice, { k \in DOMAIN client_practice : k[2] = p })
                = practice_metrics[p].billable_hours
          /\ SumOver(practice_data, { k \in DOMAIN practice_data : k[1] = p })
                = practice_metrics[p].billable_hours
    /\ \A r \in filtered_df :
          /\ Cardinality({ k \in DOMAIN client_practice :
                             k[1] = r.matter_description /\ k[2] = r.practice_area }) = 1
          /\ Cardinality({ k \in DOMAIN practice_data :
                             k[1] = r.practice_area /\ k[2] = r.attorney }) = 1
          /\ r.practice_area \in DOMAIN practice_metrics
    /\ \A k \in DOMAIN client_practice : k[2] \in DOMAIN practice_metrics
    /\ \A k \in DOMAIN practice_data : k[1] \in DOMAIN practice_metrics

\* A practice area with two clients and a client with two practice areas.
C8_Witness ==
    /\ \E k1 \in DOMAIN client_practice, k2 \in DOMAIN client_practice :
          k1[2] = k2[2] /\ k1[1] # k2[1] /\ client_practice[k1] > 0
    /\ \E k1 \in DOMAIN client_practice, k2 \in DOMAIN client_practice :
          k1[1] = k2[1] /\ k1[2] # k2[2] /\ client_practice[k1] > 0

\* ---------------------------------------------------------------------- C9
Days(frame) ==
    { <<r.activity_date.y, r.activity_date.m, r.activity_date.d>> : r \in frame }
Months(frame) == { <<r.activity_date.y, r.activity_date.m>> : r \in frame }

\* C9: the daily series has exactly one entry per calendar day that holds a
\* filtered row, the monthly series exactly one entry per calendar month that
\* holds a filtered row, both ascending by period, and neither has an entry
\* for a period without a row.
C9_OneEntryPerPeriodWithRows ==
    /\ Len(daily_data) = Cardinality(Days(filtered_df))
    /\ Len(monthly_data) = Cardinality(Months(filtered_df))
    /\ \A i \in 1..Len(daily_data) :
          <<daily_data[i].period.y, daily_data[i].period.m, daily_data[i].period.d>>
              \in Days(filtered_df)
    /\ \A i \in 1..Len(monthly_data) :
          <<monthly_data[i].period.y, monthly_data[i].period.m>> \in Months(filtered_df)
    /\ \A i \in 1..Len(daily_data) : \A j \in 1..Len(daily_data) :
          i < j => TsOrd(daily_data[i].period) < TsOrd(daily_data[j].period)
    /\ \A i \in 1..Len(monthly_data) : \A j \in 1..Len(monthly_data) :
          i < j => MonthIndex(monthly_data[i].period) < MonthIndex(monthly_data[j].period)

\* --------------------------------------------------------------------- C10
\* C10: with both thresholds active, the per-client sums compared against
\* min_client_hours are taken over the rows that meet the per-record
\* constraints and belong to an attorney the attorney threshold kept, and the
\* per-attorney sums were taken with no client removed by the client threshold.
C10_AttorneyThresholdFirst ==
    (filters.min_hours > 0 /\ filters.min_client_hours > 0) =>
        /\ client_hours =
              GroupHours({ r \in df : Satisfies(r, filters)
                                        /\ r.attorney \in valid_attorneys },
                         "matter_description")
        /\ attorney_hours =
              GroupHours({ r \in df : SatisfiesEarly(r, filters) }, "attorney")
        /\ filtered_df =
              { r \in df : /\ Satisfies(r, filters)
                           /\ r.attorney \in valid_attorneys
                           /\ r.matter_description \in valid_clients }

\* Both thresholds are active, the attorney threshold removed an attorney whose
\* hours would have counted for a client, and that changes which clients stay.
C10_Witness ==
    /\ filters.min_hours > 0
    /\ filters.min_client_hours > 0
    /\ valid_attorneys # DOMAIN attorney_hours
    /\ valid_clients #
          ValidClients({ r \in df : Satisfies(r, filters) }, filters)

\* --------------------------------------------------------------------- C11
\* The billable hours of the rows of a frame whose column col holds r's value.
HoursOfGroup(frame, col, r) ==
    SumOf({ x \in frame : x[col] = r[col] }, "billable_hours")

\* Every per-record widget is at its default and no default removes a row of df.
OnlyThresholds ==
    /\ \A k \in PerRecordKeys : filters[k] = DefaultFilters(df)[k]
    /\ \A r \in df : Satisfies(r, filters)

\* C11: with only the attorney threshold T > 0 active, the result is exactly
\* the rows of D whose attorney has at least T billable hours over D (a sum
\* equal to T is kept), all rows of a kept attorney and none of another; the
\* same for the client threshold, grouping by matter description.
C11_ThresholdKeepsWholeGroups ==
    /\ \A T \in MinHoursOptions(df) \ {0} :
          filter_data(df, Only("min_hours", T))
              = { r \in df : HoursOfGroup(df, "attorney", r) >= T }
    /\ \A T \in MinClientHoursOptions(df) \ {0} :
          filter_data(df, Only("min_client_hours", T))
              = { r \in df : HoursOfGroup(df, "matter_description", r) >= T }
    /\ (OnlyThresholds /\ filters.min_hours > 0 /\ filters.min_client_hours = 0) =>
          filtered_df
              = { r \in df : HoursOfGroup(df, "attorney", r) >= filters.min_hours }
    /\ (OnlyThresholds /\ filters.min_client_hours > 0 /\ filters.min_hours = 0) =>
          filtered_df
              = { r \in df : HoursOfGroup(df, "matter_description", r)
                                >= filters.min_client_hours }

\* Only the attorney threshold is active; it removed an attorney's rows and
\* kept another's; and the client threshold alone, on the same frame, keeps a
\* client whose hours equal the threshold.
C11_Witness ==
    /\ OnlyThresholds
    /\ filters.min_hours > 0
    /\ filters.min_client_hours = 0
    /\ filtered_df # df
    /\ filtered_df # {}
    /\ \E T \in MinClientHoursOptions(df) \ {0} :
          \E r \in filter_data(df, Only("min_client_hours", T)) :
              HoursOfGroup(df, "matter_description", r) = T

\* --------------------------------------------------------------------- C12
\* The row of the CSV file that row r of the loaded frame was read from.
CsvRowOf(r) == CHOOSE raw \in CsvRows : raw.id = r.id

\* Value v is column value x with a missing value replaced by default.
FilledFrom(v, x, default) == v # NaN /\ (IF x = NaN THEN v = default ELSE v = x)

\* C12: every loaded row has total hours = billable + non-billable hours; its
\* utilization rate is a number, billable / total * 100 (to two decimals)
\* when total > 0 and exactly 0 when total = 0; its practice area, location
\* and matter description are never missing ("Unspecified", "Unspecified"
\* and "" replace a missing value), so the row lies in exactly one group of
\* each of these keys.
C12_EnrichmentTotalAndGuarded ==
    \A r \in df :
        LET raw == CsvRowOf(r)
        IN  /\ r.total_hours = raw.billable_hours + raw.non_billable_hours
            /\ r.utilization_rate.kind = "num"
            /\ r.total_hours > 0 =>
                  \* nearest hundredth of billable / total * 100
                  /\ 2 * (r.utilization_rate.v * r.total_hours
                             - raw.billable_hours * 10000) <= r.total_hours
                  /\ 2 * (raw.billable_hours * 10000
                             - r.utilization_rate.v * r.total_hours) <= r.total_hours
            /\ r.total_hours = 0 => r.utilization_rate = Num(0)
            /\ FilledFrom(r.practice_area, raw.practice_area, "Unspecified")
            /\ FilledFrom(r.location, raw.location, "Unspecified")
            /\ FilledFrom(r.matter_description, raw.matter_description, "")
            /\ Cardinality({ p \in DOMAIN PracticeMetrics(df) : p = r.practice_area }) = 1
            /\ Cardinality({ c \in DOMAIN create_client_metrics_table(df) :
                               c = r.matter_description }) = 1
            /\ Cardinality({ l \in Unique(df, "location") : l = r.location }) = 1

\* The frame holds a row with no hours at all and a missing practice area and
\* matter description, and a row with billable and non-billable hours and a
\* missing location.
C12_Witness ==
    /\ \E r \in df :
          /\ r.total_hours = 0
          /\ CsvRowOf(r).practice_area = NaN
          /\ CsvRowOf(r).matter_description = NaN
    /\ \E r \in df :
          /\ r.billable_hours > 0
          /\ r.non_billable_hours > 0
          /\ CsvRowOf(r).location = NaN

\* --------------------------------------------------------------------- C13
\* C13: with min_client_hours > 0, every client with a row in the result has,
\* summed over the rows of the result itself, at least min_client_hours
\* billable hours, and that sum is the one the threshold was compared with.
C13_ClientThresholdPostcondition ==
    filters.min_client_hours > 0 =>
        \A r \in filtered_df :
            /\ HoursOfGroup(filtered_df, "matter_description", r)
                  >= filters.min_client_hours
            /\ r.matter_description \in DOMAIN client_hours
            /\ HoursOfGroup(filtered_df, "matter_description", r)
                  = client_hours[r.matter_description]

\* The client threshold is active together with the attorney threshold or a
\* per-record constraint; it removed a client and kept another.
C13_Witness ==
    /\ filters.min_client_hours > 0
    /\ \/ filters.min_hours > 0
       \/ \E k \in MultiSelectKeys : filters[k] # {}
    /\ valid_clients # DOMAIN client_hours
    /\ valid_clients # {}
    /\ filtered_df # {}

====
